---- MODULE Spec2Model ----
\* ChunkedVec<T, N>: a vector stored as a Vec of boxed chunks of N slots
\* (src/src/operations.rs, index.rs, drop.rs, iterators/into_iter.rs,
\* constructors/new.rs).  Slots are raw memory: a slot holds the bits of an
\* element or nothing; only `len` says which slots are live.  Every element
\* carries an identity so that destructions and moves can be counted.
EXTENDS Integers, Sequences, FiniteSets, TLC

\* ---------------------------------------------------------------- bounds
MaxN == 3          \* chunk sizes 1..MaxN
MaxIds == 4        \* elements ever created (pushed, passed, cloned)
MaxLen == 3        \* largest new_len given to resize
MaxCapArg == 2     \* largest capacity / chunk count given to a constructor

VARIABLES
    N,          \* const generic N of the instance
    data,       \* ChunkedVec::data : Vec<Chunk>, a sequence of chunks of N slots
    len,        \* ChunkedVec::len
    cap,        \* data.capacity() of the Vec of chunks
    pc,         \* "live" | "shared" | "exclusive" | "iter" | "iterDropped" |
                \* "unwinding" | "disposed"
    index,      \* IntoIter::index
    nextId,     \* identity given to the next element created
    drops,      \* identities destructed so far, in order
    taken,      \* identities handed to the caller (remove, IntoIter::next)
    shadow,     \* the sequence a plain contiguous vector would hold
    onlyPush,   \* TRUE while the container was built by pushes alone
    last,       \* the last operation: its arguments, result and pre-state
    iters       \* the live borrowing iterators (Iter, IterMut), oldest first

vars == <<N, data, len, cap, pc, index, nextId, drops, taken, shadow, onlyPush, last,
          iters>>

\* ---------------------------------------------------------------- helpers
Min(a, b) == IF a < b THEN a ELSE b
Max(a, b) == IF a > b THEN a ELSE b

\* MaybeUninit::uninit(): a slot that holds no element
Uninit == [id |-> 0, val |-> 0]
\* an element: `id` is the object (what a destructor call is counted on), `val`
\* its payload (what == compares).  The container never inspects T, so a fresh
\* value gets a payload of its own and a clone gets the payload of its original.
Elem(i, v) == [id |-> i, val |-> v]
Fresh(i) == Elem(i, i)

\* (x + N - 1) / N, usize::div_ceil
DivCeil(x, n) == (x + n - 1) \div n

\* from_fn(|_| MaybeUninit::uninit()) boxed
UninitChunk(n) == [k \in 1..n |-> Uninit]

\* internal.rs create_new_chunk: fresh chunk, slot 0 written
create_new_chunk(value, n) == [UninitChunk(n) EXCEPT ![1] = value]

\* capacity of Vec<Chunk> after it is asked to hold `required` chunks
\* (amortized growth of the standard Vec: doubling, at least 4)
VecGrow(c, required) ==
    IF required <= c THEN c ELSE Max(Max(2 * c, required), 4)

\* Vec::truncate
Truncate(d, k) == SubSeq(d, 1, Min(k, Len(d)))

\* the ids held by a sequence of elements
Ids(s) == [k \in 1..Len(s) |-> s[k].id]
Count(s, x) == Cardinality({k \in 1..Len(s) : s[k] = x})

\* ---------------------------------------------------------------- access
get_uncheckedWrongOffset(d, i, n) ==
    LET chunk_idx == i \div n
        offset == (i + 1) % n
    IN  d[chunk_idx + 1][offset + 1]

\* index.rs get_unchecked / get_unchecked_mut
get_unchecked(d, i, n) ==
    LET chunk_idx == i \div n
        offset == i % n
    IN  d[chunk_idx + 1][offset + 1]

None == [some |-> FALSE, value |-> Uninit]
Some(e) == [some |-> TRUE, value |-> e]

\* index.rs get / get_mut
get(d, l, i, n) == IF i >= l THEN None ELSE Some(get_unchecked(d, i, n))

\* index.rs Index::index / IndexMut::index_mut bounds test
IndexOutOfBoundsByChunks(d, l, i, n) == i >= Len(d) * n
IndexOutOfBounds(d, l, i, n) == i >= l

\* what a caller reads through get(0), get(1), ... get(len - 1)
View(d, l, n) == [k \in 1..l |-> get_unchecked(d, k - 1, n)]

\* ---------------------------------------------------------------- push
PushAssertFails(d, l, n) == (l \div n) >= Len(d) /\ (l % n) # 0

PushDataOffByOne(d, l, value, n) ==
    LET chunk_idx == l \div n
        offset == IF l % n = 0 THEN 0 ELSE (l % n) - 1
    IN  IF chunk_idx >= Len(d)
        THEN Append(d, create_new_chunk(value, n))
        ELSE [d EXCEPT ![chunk_idx + 1][offset + 1] = value]

PushDataFreshChunk(d, l, value, n) ==
    LET chunk_idx == l \div n
        offset == l % n
    IN  IF chunk_idx >= Len(d)
        THEN Append(d, create_new_chunk(value, n))
        ELSE [d EXCEPT ![chunk_idx + 1] = [UninitChunk(n) EXCEPT ![offset + 1] = value]]

PushData(d, l, value, n) ==
    LET chunk_idx == l \div n
        offset == l % n
    IN  IF chunk_idx >= Len(d)
        THEN Append(d, create_new_chunk(value, n))
        ELSE [d EXCEPT ![chunk_idx + 1][offset + 1] = value]

PushDroppedPrior(d, l, n) ==
    LET chunk_idx == l \div n
        offset == l % n
    IN  IF chunk_idx >= Len(d) THEN <<>> ELSE <<d[chunk_idx + 1][offset + 1].id>>

\* what push destructs: create_new_chunk and MaybeUninit::write move the
\* value into the slot without reading or destructing what the slot held
PushDropped(d, l, n) == <<>>

PushCap(d, l, c, n) ==
    IF (l \div n) >= Len(d) THEN VecGrow(c, Len(d) + 1) ELSE c

\* operations.rs capacity / allocated_capacity
capacity(c, n) == c * n
allocated_capacity(d, n) == Len(d) * n

\* ---------------------------------------------------------------- state
\* ---------------------------------------------------------------- chunk list
\* Where the chunks (the Box allocations) of the list after a step come from:
\* entry k is the position the k-th chunk had in the list before the step,
\* or 0 for a chunk allocated by the step. A write into a slot of a chunk
\* leaves the chunk in place.
SameChunks(d) == [k \in 1..Len(d) |-> k]

PushChunksFront(d, l, n) ==
    IF (l \div n) >= Len(d) THEN <<0>> \o SameChunks(d) ELSE SameChunks(d)

\* push: self.data.push(chunk) when chunk_idx >= self.data.len()
PushChunks(d, l, n) ==
    LET chunk_idx == l \div n
    IN  IF chunk_idx >= Len(d) THEN Append(SameChunks(d), 0) ELSE SameChunks(d)

\* resize: self.data.resize_with(required_chunks, ..) when growing,
\* self.data.truncate(required_chunks) when shrinking
ResizeChunks(d, old_len, new_len, n) ==
    IF new_len > old_len
    THEN LET required_chunks == (new_len + n - 1) \div n
         IN  IF required_chunks > Len(d)
             THEN SameChunks(d) \o [k \in 1..(required_chunks - Len(d)) |-> 0]
             ELSE SameChunks(d)
    ELSE IF new_len < old_len
         THEN LET required_chunks == IF new_len = 0 THEN 0 ELSE (new_len + n - 1) \div n
              IN  Truncate(SameChunks(d), required_chunks)
         ELSE SameChunks(d)

\* remove: self.len -= 1; self.data.truncate(required_chunks)
RemoveChunks(d, l, n) ==
    LET new_len == l - 1
        required_chunks == IF new_len = 0 THEN 0 ELSE (new_len + n - 1) \div n
    IN  Truncate(SameChunks(d), required_chunks)

\* the chunks left by operation op with argument i ending with `outcome`;
\* a panic leaves the list as it is, and the disposal takes the whole list
StepChunks(op, i, outcome) ==
    CASE op = "drop" -> <<>>
      [] op = "push" /\ outcome = "ok" -> PushChunks(data, len, N)
      [] op = "resize" /\ outcome = "ok" -> ResizeChunks(data, len, i, N)
      [] op = "remove" /\ outcome = "ok" -> RemoveChunks(data, len, N)
      [] OTHER -> SameChunks(data)

Rec(op, i, outcome, ret, arg, dropped) ==
    [op |-> op, index |-> i, outcome |-> outcome, ret |-> ret, arg |-> arg,
     pre |-> View(data, len, N), preData |-> data, preLen |-> len,
     preCap |-> cap, prePc |-> pc, dropped |-> dropped,
     chunks |-> StepChunks(op, i, outcome)]

WithCapacityCapRaw(c, n) == c

\* ChunkedVecSized::new / with_capacity / with_chunk_count
NewCap == 0
WithCapacityCap(c, n) == DivCeil(c, n)
WithChunkCountCap(chunk_count) == chunk_count

Init ==
    /\ N \in 1..MaxN
    /\ data = <<>>
    /\ len = 0
    /\ \E a \in 0..MaxCapArg :
          cap \in {NewCap, WithCapacityCap(a, N), WithChunkCountCap(a)}
    /\ pc = "live"
    /\ index = 0
    /\ nextId = 1
    /\ drops = <<>>
    /\ taken = <<>>
    /\ shadow = <<>>
    /\ onlyPush = TRUE
    /\ last = [op |-> "new", index |-> 0, outcome |-> "ok", ret |-> Uninit,
               arg |-> Uninit, pre |-> <<>>, preData |-> <<>>, preLen |-> 0,
               preCap |-> cap, prePc |-> "live", dropped |-> <<>>,
               chunks |-> <<>>]
    /\ iters = <<>>

\* the constructors, by name; CtorCap is the capacity the Vec of chunks is
\* created with and CtorData the chunks it holds (Vec::new / Vec::with_capacity
\* create a Vec with no element)
Constructors == {"new", "with_capacity", "with_chunk_count"}

CtorCap(ctor, a, n) ==
    CASE ctor = "new" -> NewCap
      [] ctor = "with_capacity" -> WithCapacityCap(a, n)
      [] ctor = "with_chunk_count" -> WithChunkCountCap(a)

CtorData(ctor, a, n) == <<>>

\* the state right after a constructor call; `last` names the constructor
InitCtor ==
    /\ N \in 1..MaxN
    /\ \E ctor \in Constructors : \E a \in 0..MaxCapArg :
          /\ ctor = "new" => a = 0
          /\ data = CtorData(ctor, a, N)
          /\ cap = CtorCap(ctor, a, N)
          /\ last = [op |-> ctor, index |-> a, outcome |-> "ok", ret |-> Uninit,
                     arg |-> Uninit, pre |-> <<>>, preData |-> <<>>, preLen |-> 0,
                     preCap |-> cap, prePc |-> "live", dropped |-> <<>>,
               chunks |-> <<>>]
    /\ len = 0
    /\ pc = "live"
    /\ index = 0
    /\ nextId = 1
    /\ drops = <<>>
    /\ taken = <<>>
    /\ shadow = <<>>
    /\ onlyPush = TRUE
    /\ iters = <<>>

\* operations.rs push
Push ==
    /\ pc = "live"
    /\ nextId <= MaxIds
    /\ LET value == Fresh(nextId) IN
       /\ nextId' = nextId + 1
       /\ IF PushAssertFails(data, len, N)
          THEN /\ pc' = "unwinding"
               /\ drops' = Append(drops, value.id)
               /\ last' = Rec("push", len, "panic", Uninit, value, <<value.id>>)
               /\ UNCHANGED <<data, len, cap, shadow, onlyPush>>
          ELSE /\ data' = PushData(data, len, value, N)
               /\ cap' = PushCap(data, len, cap, N)
               /\ len' = len + 1
               /\ shadow' = Append(shadow, value)
               /\ drops' = drops \o PushDropped(data, len, N)
               /\ last' = Rec("push", len, "ok", Uninit, value, PushDropped(data, len, N))
               /\ UNCHANGED <<pc, onlyPush>>
    /\ UNCHANGED <<N, index, taken>>
    /\ UNCHANGED iters


\* ---------------------------------------------------------------- resize
\* operations.rs resize, growing: data.resize_with(required_chunks, uninit chunk)
GrowChunksExtra(d, required, n) ==
    IF required > Len(d)
    THEN d \o [k \in 1..(required + 1 - Len(d)) |-> UninitChunk(n)]
    ELSE d

GrowChunks(d, required, n) ==
    IF required > Len(d)
    THEN d \o [k \in 1..(required - Len(d)) |-> UninitChunk(n)]
    ELSE d

\* for i in old_len..new_len { data[i / N][i % N].write(value.clone()) }
\* the clone written at index i has identity firstId + (i - old_len)
RECURSIVE WriteClones(_, _, _, _, _, _)
WriteClones(d, i, new_len, value, cloneId, n) ==
    IF i >= new_len THEN d
    ELSE LET chunk_idx == i \div n
             offset == i % n
             d1 == [d EXCEPT ![chunk_idx + 1][offset + 1] = Elem(cloneId, value.val)]
         IN  WriteClones(d1, i + 1, new_len, value, cloneId + 1, n)

\* for i in new_len..old_len { drop_in_place(data[i / N][i % N]) }
RECURSIVE DropRange(_, _, _, _)
DropRange(d, i, old_len, n) ==
    IF i >= old_len THEN <<>>
    ELSE LET chunk_idx == i \div n
             offset == i % n
         IN  <<d[chunk_idx + 1][offset + 1].id>> \o DropRange(d, i + 1, old_len, n)

ShrinkChunksKeepAll(d, new_len, n) == d

ShrinkChunksFloor(d, new_len, n) == Truncate(d, new_len \div n)

\* self.data.truncate(required_chunks) of the shrinking branch
ShrinkChunks(d, new_len, n) ==
    LET required_chunks == IF new_len = 0 THEN 0 ELSE (new_len + n - 1) \div n
    IN  Truncate(d, required_chunks)

ResizeDataSkipFirst(d, old_len, new_len, value, cloneId, n) ==
    IF new_len > old_len
    THEN WriteClones(GrowChunks(d, (new_len + n - 1) \div n, n),
                     old_len + 1, new_len, value, cloneId, n)
    ELSE IF new_len < old_len THEN Truncate(d, DivCeil(new_len, n))
    ELSE d

\* the chunk list resize leaves behind
ResizeData(d, old_len, new_len, value, cloneId, n) ==
    IF new_len > old_len
    THEN WriteClones(GrowChunks(d, (new_len + n - 1) \div n, n),
                     old_len, new_len, value, cloneId, n)
    ELSE IF new_len < old_len THEN ShrinkChunks(d, new_len, n)
    ELSE d

ResizeDropped(d, old_len, new_len, n) ==
    IF new_len < old_len THEN DropRange(d, new_len, old_len, n) ELSE <<>>

ResizeCap(d, c, old_len, new_len, n) ==
    IF new_len > old_len THEN VecGrow(c, (new_len + n - 1) \div n) ELSE c

\* the plain-vector meaning of resize
ShadowResize(s, new_len, value, cloneId) ==
    IF new_len <= Len(s) THEN SubSeq(s, 1, new_len)
    ELSE s \o [k \in 1..(new_len - Len(s)) |-> Elem(cloneId + k - 1, value.val)]

Resize(new_len) ==
    /\ pc = "live"
    /\ LET value == Fresh(nextId)
           clones == IF new_len > len THEN new_len - len ELSE 0
           dropped == ResizeDropped(data, len, new_len, N)
       IN
       /\ nextId + clones <= MaxIds
       /\ nextId' = nextId + 1 + clones
       /\ data' = ResizeData(data, len, new_len, value, nextId + 1, N)
       /\ cap' = ResizeCap(data, cap, len, new_len, N)
       /\ len' = new_len
       \* `value` goes out of scope at the end of resize
       /\ drops' = drops \o dropped \o <<value.id>>
       /\ shadow' = ShadowResize(shadow, new_len, value, nextId + 1)
       /\ last' = Rec("resize", new_len, "ok", Uninit, value, dropped \o <<value.id>>)
    /\ onlyPush' = FALSE
    /\ UNCHANGED <<N, pc, index, taken>>
    /\ UNCHANGED iters

\* ---------------------------------------------------------------- remove
\* ptr::copy(src, dst, count) within one chunk (memmove; offsets are 0-based)
CopyWithin(ch, src, dst, count) ==
    [k \in 1..Len(ch) |->
        IF k - 1 >= dst /\ k - 1 < dst + count THEN ch[k - dst + src] ELSE ch[k]]

RemoveOutOfBoundsByChunks(d, l, i, n) == i >= Len(d) * n

\* operations.rs remove: the precondition test
RemoveOutOfBounds(d, l, i, n) == i >= l

\* close the gap inside the chunk that holds `index`
RemoveShiftFirst(d, i, n) ==
    LET current_chunk_idx == i \div n
        offset == i % n
        count == n - 1 - offset
    IN  IF count > 0
        THEN [d EXCEPT ![current_chunk_idx + 1] =
                 CopyWithin(d[current_chunk_idx + 1], offset + 1, offset, count)]
        ELSE d

\* for i in current_chunk_idx..until_chunk_idx: pull the next chunk's first
\* slot into this chunk's last slot, shift the next chunk down by one
RECURSIVE RemoveLoop(_, _, _, _)
RemoveLoop(d, i, until_chunk_idx, n) ==
    IF i >= until_chunk_idx THEN d
    ELSE LET val_from_next == d[i + 2][1]
             d1 == [d EXCEPT ![i + 1][n] = val_from_next]
             d2 == [d1 EXCEPT ![i + 2] = CopyWithin(d1[i + 2], 1, 0, n - 1)]
         IN  RemoveLoop(d2, i + 1, until_chunk_idx, n)

\* the chunk whose slot remove marks uninitialized: computed from the old len
RemoveLastChunkIdx(l, n) == l \div n
RemoveLastOffset(l, n) == l % n

\* the memory after the moves of remove, before its last step
RemoveMoved(d, l, i, n) ==
    RemoveLoop(RemoveShiftFirst(d, i, n), i \div n, (l - 1) \div n, n)

\* self.data[last_chunk_idx] is a checked Vec index
RemoveLastStepPanics(d, l, n) == RemoveLastChunkIdx(l, n) >= Len(d)

RemoveDataFloor(d, l, i, n) ==
    LET moved == RemoveMoved(d, l, i, n)
        marked == [moved EXCEPT ![RemoveLastChunkIdx(l, n) + 1]
                                 [RemoveLastOffset(l, n) + 1] = Uninit]
        new_len == l - 1
    IN  Truncate(marked, new_len \div n)

RemoveData(d, l, i, n) ==
    LET moved == RemoveMoved(d, l, i, n)
        marked == [moved EXCEPT ![RemoveLastChunkIdx(l, n) + 1]
                                 [RemoveLastOffset(l, n) + 1] = Uninit]
        new_len == l - 1
        required_chunks == IF new_len = 0 THEN 0 ELSE (new_len + n - 1) \div n
    IN  Truncate(marked, required_chunks)

\* the plain-vector meaning of remove
ShadowRemove(s, i) ==
    IF i < Len(s) THEN SubSeq(s, 1, i) \o SubSeq(s, i + 2, Len(s)) ELSE s

Remove(i) ==
    /\ pc = "live"
    /\ IF RemoveOutOfBounds(data, len, i, N)
       THEN /\ pc' = "unwinding"
            /\ last' = Rec("remove", i, "panic", Uninit, Uninit, <<>>)
            /\ UNCHANGED <<data, len, drops, taken, shadow>>
       ELSE LET ret == data[(i \div N) + 1][(i % N) + 1] IN
            IF RemoveLastStepPanics(data, len, N)
            THEN \* the panic unwinds through `ret`, which is destructed
                 /\ pc' = "unwinding"
                 /\ data' = RemoveMoved(data, len, i, N)
                 /\ drops' = Append(drops, ret.id)
                 /\ last' = Rec("remove", i, "panic", Uninit, Uninit, <<ret.id>>)
                 /\ UNCHANGED <<len, taken, shadow>>
            ELSE /\ data' = RemoveData(data, len, i, N)
                 /\ len' = len - 1
                 /\ taken' = Append(taken, ret.id)
                 /\ shadow' = ShadowRemove(shadow, i)
                 /\ last' = Rec("remove", i, "ok", ret, Uninit, <<>>)
                 /\ UNCHANGED <<pc, drops>>
    /\ onlyPush' = FALSE
    /\ UNCHANGED <<N, cap, index, nextId>>
    /\ UNCHANGED iters

\* ---------------------------------------------------------------- disposal
\* whether T has a destructor (std::mem::needs_drop::<T>())
needs_drop == TRUE

DropChunksWhole(d, k, remaining, n) ==
    [j \in 1..(Min(DivCeil(remaining, n), Len(d) - k + 1) * n) |->
        d[k + ((j - 1) \div n)][((j - 1) % n) + 1].id]

\* drop.rs: for chunk in take(data): drop min(remaining, N) slots from offset 0
RECURSIVE DropChunks(_, _, _, _)
DropChunks(d, k, remaining, n) ==
    IF k > Len(d) THEN <<>>
    ELSE LET to_drop == Min(remaining, n) IN
         IF to_drop = 0 THEN <<>>
         ELSE [o \in 1..to_drop |-> d[k][o].id]
              \o DropChunks(d, k + 1, remaining - to_drop, n)

DropDropped(d, l, n) == IF ~needs_drop THEN <<>> ELSE DropChunks(d, 1, l, n)

\* impl Drop for ChunkedVec, run when the owner goes away: at the end of its
\* scope, while a panic unwinds, or after IntoIter::drop as the drop of its field
Dispose ==
    /\ pc \in {"live", "unwinding", "iterDropped"}
    /\ pc' = "disposed"
    /\ drops' = drops \o DropDropped(data, len, N)
    /\ data' = <<>>
    /\ cap' = 0
    /\ last' = Rec("drop", 0, last.outcome, Uninit, Uninit, DropDropped(data, len, N))
    /\ UNCHANGED <<N, len, index, nextId, taken, shadow, onlyPush>>
    /\ UNCHANGED iters

\* ---------------------------------------------------------------- reads
\* index.rs get
Get(i) ==
    /\ pc = "live"
    /\ last' = Rec("get", i, "ok", get(data, len, i, N), Uninit, <<>>)
    /\ UNCHANGED <<N, data, len, cap, pc, index, nextId, drops, taken, shadow, onlyPush>>
    /\ UNCHANGED iters

\* index.rs get_mut: same test, same location, handed out as &mut
GetMut(i) ==
    /\ pc = "live"
    /\ last' = Rec("get_mut", i, "ok", get(data, len, i, N), Uninit, <<>>)
    /\ UNCHANGED <<N, data, len, cap, pc, index, nextId, drops, taken, shadow, onlyPush>>
    /\ UNCHANGED iters

\* index.rs Index::index : container[i] read
IndexRead(i) ==
    /\ pc = "live"
    /\ IF IndexOutOfBounds(data, len, i, N)
       THEN /\ pc' = "unwinding"
            /\ last' = Rec("index", i, "panic", None, Uninit, <<>>)
       ELSE /\ pc' = pc
            /\ last' = Rec("index", i, "ok", Some(get_unchecked(data, i, N)), Uninit, <<>>)
    /\ UNCHANGED <<N, data, len, cap, index, nextId, drops, taken, shadow, onlyPush>>
    /\ UNCHANGED iters

\* the slot &mut container[i] refers to, written by `container[i] = value`
IndexMutData(d, i, value, n) ==
    LET chunk_idx == i \div n
        offset == i % n
    IN  [d EXCEPT ![chunk_idx + 1][offset + 1] = value]

\* index.rs IndexMut::index_mut followed by the assignment `container[i] = value`:
\* the assignment destructs the element the reference points at and moves
\* `value` in; when index_mut panics, `value` is destructed by the unwinding
IndexWrite(i) ==
    /\ pc = "live"
    /\ nextId <= MaxIds
    /\ nextId' = nextId + 1
    /\ LET value == Fresh(nextId) IN
       IF IndexOutOfBounds(data, len, i, N)
       THEN /\ pc' = "unwinding"
            /\ drops' = Append(drops, value.id)
            /\ last' = Rec("index_mut", i, "panic", None, value, <<value.id>>)
            /\ UNCHANGED <<data, shadow>>
       ELSE LET old == get_unchecked(data, i, N) IN
            /\ pc' = pc
            /\ data' = IndexMutData(data, i, value, N)
            /\ drops' = Append(drops, old.id)
            /\ shadow' = [shadow EXCEPT ![i + 1] = value]
            /\ last' = Rec("index_mut", i, "ok", Some(old), value, <<old.id>>)
    /\ onlyPush' = FALSE
    /\ UNCHANGED <<N, len, cap, index, taken>>
    /\ UNCHANGED iters

\* ---------------------------------------------------------------- owning iterator
\* iterators/into_iter.rs into_iter: the container moves into the iterator
IntoIter ==
    /\ pc = "live"
    /\ pc' = "iter"
    /\ index' = 0
    /\ last' = Rec("into_iter", 0, "ok", None, Uninit, <<>>)
    /\ UNCHANGED <<N, data, len, cap, nextId, drops, taken, shadow, onlyPush>>
    /\ UNCHANGED iters

\* IntoIter::next, the slot read out and overwritten with MaybeUninit::uninit()
IterNextData(d, i, n) ==
    LET chunk_idx == i \div n
        offset == i % n
    IN  [d EXCEPT ![chunk_idx + 1][offset + 1] = Uninit]

IterNextValueWrongOffset(d, i, n) ==
    LET chunk_idx == i \div n
        offset == (i + 1) % n
    IN  d[chunk_idx + 1][offset + 1]

IterNextValue(d, i, n) ==
    LET chunk_idx == i \div n
        offset == i % n
    IN  d[chunk_idx + 1][offset + 1]

\* IntoIter::size_hint
size_hint(l, i) == <<l - i, l - i>>

IterNext ==
    /\ pc = "iter"
    /\ IF index < len
       THEN /\ index' = index + 1
            /\ data' = IterNextData(data, index, N)
            /\ taken' = Append(taken, IterNextValue(data, index, N).id)
            /\ last' = Rec("next", index, "ok", Some(IterNextValue(data, index, N)),
                           Uninit, <<>>)
       ELSE /\ last' = Rec("next", index, "ok", None, Uninit, <<>>)
            /\ UNCHANGED <<index, data, taken>>
    /\ UNCHANGED <<N, len, cap, pc, nextId, drops, shadow, onlyPush>>
    /\ UNCHANGED iters

\* impl Drop for IntoIter: while index < len { assume_init_drop(slot); index += 1 }
RECURSIVE IterDropDropped(_, _, _, _)
IterDropDropped(d, i, l, n) ==
    IF i >= l THEN <<>>
    ELSE LET chunk_idx == i \div n
             offset == i % n
         IN  <<d[chunk_idx + 1][offset + 1].id>> \o IterDropDropped(d, i + 1, l, n)

IterDropLenKept(l) == l

\* the len IntoIter::drop leaves in the container
IterDropLen(l) == 0

IterDrop ==
    /\ pc = "iter"
    /\ pc' = "iterDropped"
    /\ drops' = drops \o IterDropDropped(data, index, len, N)
    /\ index' = Max(index, len)
    /\ len' = IterDropLen(len)
    /\ last' = Rec("iter_drop", index, "ok", None, Uninit,
                   IterDropDropped(data, index, len, N))
    /\ UNCHANGED <<N, data, cap, nextId, taken, shadow, onlyPush>>
    /\ UNCHANGED iters

Next ==
    \/ Push
    \/ \E new_len \in 0..MaxLen : Resize(new_len)
    \/ \E i \in 0..MaxLen : Remove(i)
    \/ \E i \in 0..MaxLen : Get(i)
    \/ \E i \in 0..MaxLen : GetMut(i)
    \/ \E i \in 0..MaxLen : IndexRead(i)
    \/ \E i \in 0..MaxLen : IndexWrite(i)
    \/ IntoIter
    \/ IterNext
    \/ IterDrop
    \/ Dispose

Spec == Init /\ [][Next]_vars

\* ================================================================ claims
\* the ids ever created
AllIds == 1..(nextId - 1)
Destructions(x) == Count(drops, x)
Handovers(x) == Count(taken, x)

\* C1: after n pushes onto an empty container (any N, any reserved capacity)
\* len() = n, get(i) is the i-th pushed value for every i < n, get(n) is None.
\* While onlyPush holds, shadow is the sequence of the values pushed.
C1_PushThenGet ==
    (onlyPush /\ pc = "live") =>
        /\ len = Len(shadow)
        /\ \A i \in 0..(Len(shadow) - 1) : get(data, len, i, N) = Some(shadow[i + 1])
        /\ get(data, len, Len(shadow), N) = None

C1_Witness ==
    /\ onlyPush /\ pc = "live" /\ N = 2 /\ len = 3 /\ Len(data) = 2
    /\ last.op = "push" /\ last.preCap > 0

\* C2: remove(i) with i < len returns the value previously at i, len drops by
\* one, elements before i stay, every element after i moves down by one.
C2_RemoveShifts ==
    (last.op = "remove" /\ last.index < last.preLen) =>
        /\ last.outcome = "ok"
        /\ last.ret = last.pre[last.index + 1]
        /\ len = last.preLen - 1
        /\ View(data, len, N) = ShadowRemove(last.pre, last.index)

\* C3: over push, resize, remove and disposal every element is destructed
\* exactly once or handed to the caller exactly once, never both, never twice;
\* disposal destructs exactly len elements and leaks none.
C3_ExactlyOnce ==
    /\ Destructions(0) = 0
    /\ \A x \in AllIds : Destructions(x) + Handovers(x) <= 1
    /\ pc = "disposed" => \A x \in AllIds : Destructions(x) + Handovers(x) = 1
    /\ (last.op = "drop" /\ last.prePc # "iterDropped") =>
           Len(last.dropped) = last.preLen

\* C4: dropping an owning iterator that has yielded k of len elements
\* destructs each of the len - k remaining elements once, none of the k
\* yielded ones, and sets len to 0 so the container's disposal destructs nothing.
C4_IterDrop ==
    /\ last.op = "iter_drop" =>
          /\ last.dropped = Ids(SubSeq(shadow, last.index + 1, Len(shadow)))
          /\ len = 0
          /\ \A k \in 1..Len(shadow) :
                /\ Destructions(shadow[k].id) = (IF k > last.index THEN 1 ELSE 0)
                /\ Handovers(shadow[k].id) = (IF k > last.index THEN 0 ELSE 1)
    /\ (last.op = "drop" /\ last.prePc = "iterDropped") =>
          /\ last.dropped = <<>>
          /\ \A k \in 1..Len(shadow) :
                Destructions(shadow[k].id) + Handovers(shadow[k].id) = 1

C4_Witness ==
    /\ last.op = "drop" /\ last.prePc = "iterDropped"
    /\ N = 2 /\ Len(shadow) = 3 /\ Len(taken) = 1 /\ Len(drops) = 2

\* C5: resize(new_len, v) with new_len > len: len = new_len, the old elements
\* are unchanged, every new element equals v, and nothing stored is
\* destructed (only the passed fill value, once).
C5_ResizeGrow ==
    (last.op = "resize" /\ last.index > last.preLen) =>
        /\ len = last.index
        /\ SubSeq(View(data, len, N), 1, last.preLen) = last.pre
        /\ \A k \in (last.preLen + 1)..len :
              /\ get_unchecked(data, k - 1, N).val = last.arg.val
              /\ get_unchecked(data, k - 1, N).id # last.arg.id
              /\ Destructions(get_unchecked(data, k - 1, N).id) = 0
        /\ last.dropped = <<last.arg.id>>
        /\ Destructions(last.arg.id) = 1

C5_Witness ==
    /\ last.op = "resize" /\ last.index > last.preLen
    /\ N = 2 /\ last.preLen = 1 /\ last.index = 3

\* C6: resize(new_len, v) with new_len < len: len = new_len, the first new_len
\* elements are unchanged, exactly the elements at [new_len, old_len) are
\* destructed, each once, and the chunk list has ceil(new_len / N) chunks.
C6_ResizeShrink ==
    (last.op = "resize" /\ last.index < last.preLen) =>
        /\ len = last.index
        /\ View(data, len, N) = SubSeq(last.pre, 1, last.index)
        /\ last.dropped =
              Ids(SubSeq(last.pre, last.index + 1, last.preLen)) \o <<last.arg.id>>
        /\ \A k \in (last.index + 1)..last.preLen : Destructions(last.pre[k].id) = 1
        /\ \A k \in 1..last.index : Destructions(last.pre[k].id) = 0
        /\ Len(data) = DivCeil(last.index, N)

C6_Witness ==
    /\ last.op = "resize" /\ last.index < last.preLen
    /\ N = 2 /\ last.preLen = 3 /\ last.index = 1 /\ Len(last.preData) = 2
    /\ Len(data) = 1

\* C7: after construction and any pushes, resizes and removes, capacity() is
\* a multiple of N and capacity() >= allocated_capacity() >= len().
C7_CapacityOrder ==
    pc # "disposed" =>
        /\ capacity(cap, N) % N = 0
        /\ capacity(cap, N) >= allocated_capacity(data, N)
        /\ allocated_capacity(data, N) >= len

C7_Witness ==
    /\ pc = "live" /\ last.op = "remove" /\ last.outcome = "ok"
    /\ capacity(cap, N) > allocated_capacity(data, N)
    /\ allocated_capacity(data, N) > len /\ len > 0

\* C8: get(index) and get_mut(index) return None exactly when index >= len and
\* otherwise the element at that logical index; they change nothing.
C8_GetTotal ==
    /\ pc = "live" =>
          \A i \in 0..(MaxLen + 1) :
              get(data, len, i, N) = (IF i >= len THEN None ELSE Some(shadow[i + 1]))
    /\ last.op \in {"get", "get_mut"} =>
          /\ last.ret = (IF last.index >= len THEN None ELSE Some(shadow[last.index + 1]))
          /\ data = last.preData /\ len = last.preLen /\ pc = "live"

C8_Witness ==
    /\ last.op = "get_mut" /\ N = 2 /\ len = 3 /\ last.index = 2 /\ last.ret.some

\* C9: container[index] with index >= len is a fatal error that leaves the
\* container unchanged; with index < len it yields the element at index, and a
\* write through it changes that one element and not len.
C9_IndexChecked ==
    last.op \in {"index", "index_mut"} =>
        IF last.index >= last.preLen
        THEN /\ last.outcome = "panic" /\ pc = "unwinding"
             /\ data = last.preData /\ len = last.preLen
        ELSE /\ last.outcome = "ok" /\ pc = "live"
             /\ last.ret = Some(last.pre[last.index + 1])
             /\ len = last.preLen /\ Len(data) = Len(last.preData)
             /\ View(data, len, N) =
                   (IF last.op = "index" THEN last.pre
                    ELSE [last.pre EXCEPT ![last.index + 1] = last.arg])
             /\ View(data, len, N) = shadow
             /\ last.op = "index" => data = last.preData

C9_Witness ==
    /\ last.op = "index_mut" /\ last.outcome = "ok"
    /\ N = 2 /\ len = 3 /\ last.index = 2

\* C10: remove(index) with index >= len (also on an empty container) panics
\* before reading or moving any slot: elements, len and chunk list unchanged.
C10_RemoveOutOfBounds ==
    (last.op = "remove" /\ last.index >= last.preLen) =>
        /\ last.outcome = "panic" /\ pc = "unwinding"
        /\ data = last.preData /\ len = last.preLen
        /\ last.dropped = <<>> /\ last.ret = Uninit

C10_Witness ==
    /\ last.op = "remove" /\ last.outcome = "panic"
    /\ last.index >= last.preLen /\ last.preLen = 2 /\ N = 3

\* C11: push never moves an existing element: every chunk that existed before
\* is still at its position, every slot but the one at logical index old len
\* holds what it held, that slot holds the pushed value, and a chunk that push
\* appends holds nothing else.  (A chunk is identified by its position in the
\* chunk list: the list holds boxes, so no operation relocates a chunk.)
C11_PushFrame ==
    (last.op = "push" /\ last.outcome = "ok") =>
        /\ len = last.preLen + 1
        /\ Len(data) >= Len(last.preData) /\ Len(data) <= Len(last.preData) + 1
        /\ \A c \in 1..Len(data) : \A o \in 1..N :
              data[c][o] =
                 (IF (c - 1) * N + (o - 1) = last.preLen THEN last.arg
                  ELSE IF c <= Len(last.preData) THEN last.preData[c][o]
                  ELSE Uninit)
        /\ \A i \in 0..(last.preLen - 1) :
              get_unchecked(data, i, N) = last.pre[i + 1]

C11_Witness ==
    /\ last.op = "push" /\ last.outcome = "ok" /\ ~onlyPush
    /\ N = 2 /\ last.preLen = 2 /\ Len(last.preData) = 1 /\ Len(data) = 2

\* construction followed by pushes and removals, and disposal
NextCtor ==
    \/ Push
    \/ \E i \in 0..MaxLen : Remove(i)
    \/ Dispose

SpecCtor == InitCtor /\ [][NextCtor]_vars

\* C12: right after with_capacity(c) the chunk list holds ceil(c / N) chunks
\* of uninitialized slots, after with_chunk_count(k) exactly k such chunks,
\* after new() none; len is 0 in each case.
C12_CtorAllocatesChunks ==
    last.op \in Constructors =>
        /\ len = 0
        /\ Len(data) = (CASE last.op = "new" -> 0
                          [] last.op = "with_capacity" -> DivCeil(last.index, N)
                          [] last.op = "with_chunk_count" -> last.index)
        /\ \A c \in 1..Len(data) : data[c] = UninitChunk(N)

\* C13: right after with_capacity(c) capacity() = ceil(c / N) * N, after
\* with_chunk_count(k) capacity() = k * N, after new() capacity() = 0; a push
\* whose resulting len fits the capacity leaves capacity() as it was.
C13_CapacityKept ==
    /\ last.op \in Constructors =>
          capacity(cap, N) =
              (CASE last.op = "new" -> 0
                 [] last.op = "with_capacity" -> DivCeil(last.index, N) * N
                 [] last.op = "with_chunk_count" -> last.index * N)
    /\ (last.op = "push" /\ last.outcome = "ok"
            /\ len <= capacity(last.preCap, N)) =>
          capacity(cap, N) = capacity(last.preCap, N)

C13_Witness ==
    /\ last.op = "push" /\ onlyPush /\ N = 2 /\ len = 4
    /\ last.preCap = 2 /\ cap = 2 /\ Len(data) = 2

\* the number of elements of the iterated sequence handed to the caller
Yielded == Cardinality({j \in 1..Len(shadow) : Handovers(shadow[j].id) = 1})

\* C14: an owning iterator yields the elements at indices 0, 1, ..., len - 1
\* in that order, each once, then None; after k elements its size_hint is
\* (len - k, len - k).
C14_IntoIterOrder ==
    pc = "iter" =>
        /\ Yielded <= Len(shadow)
        /\ SubSeq(taken, Len(taken) - Yielded + 1, Len(taken)) =
              Ids(SubSeq(shadow, 1, Yielded))
        /\ \A j \in 1..Len(shadow) : Handovers(shadow[j].id) <= 1
        /\ size_hint(len, index) = <<Len(shadow) - Yielded, Len(shadow) - Yielded>>
        /\ last.op = "next" =>
              last.ret = (IF last.index < Len(shadow)
                          THEN Some(shadow[last.index + 1]) ELSE None)

C14_Witness ==
    /\ pc = "iter" /\ last.op = "next" /\ last.ret = None
    /\ N = 2 /\ Len(shadow) = 3 /\ Yielded = 3

\* ---------------------------------------------------------------- borrowing iterators
\* An element of `iters` is one live Iter or IterMut: `index` is its cursor
\* field; `refs` and `yielded` are history: the locations <<chunk, offset>> of
\* the references it has returned and the elements they referred to when
\* returned; `done` records that a call of next has returned None; `data0`
\* and `len0` are the container as it was when the iterator was created.
MaxIters == 2

NewIter == [index |-> 0, refs |-> <<>>, yielded |-> <<>>, done |-> FALSE,
            data0 |-> data, len0 |-> len]

\* ChunkedVec::iter: a shared borrow; any number may be live together
iter ==
    /\ pc \in {"live", "shared"}
    /\ Len(iters) < MaxIters
    /\ iters' = Append(iters, NewIter)
    /\ pc' = "shared"
    /\ last' = Rec("iter", Len(iters) + 1, "ok", None, Uninit, <<>>)
    /\ UNCHANGED <<N, data, len, cap, index, nextId, drops, taken, shadow, onlyPush>>

Iter_nextIndexSkip(i) == i + 2

\* self.index += 1
Iter_nextIndex(i) == i + 1

\* the location of element i: chunk index and offset within the chunk
get_unchecked_mutWrongOffset(i, n) == <<i \div n, (i + 1) % n>>

get_unchecked_mutCeil(i, n) == <<(i + n - 1) \div n, i % n>>

get_unchecked_mut(i, n) ==
    LET chunk_idx == i \div n
        offset == i % n
    IN  <<chunk_idx, offset>>

Iter_nextItersAll(its, k, i, e, n) ==
    [j \in 1..Len(its) |->
        IF j = k
        THEN [its[j] EXCEPT !.index = Iter_nextIndex(i),
                           !.refs = Append(@, get_unchecked_mut(i, n)),
                           !.yielded = Append(@, e)]
        ELSE [its[j] EXCEPT !.index = Iter_nextIndex(@)]]

\* the iterators after iterator k, with cursor i, has returned a reference to
\* element e: only the fields of iterator k change
Iter_nextIters(its, k, i, e, n) ==
    [its EXCEPT ![k] = [@ EXCEPT !.index = Iter_nextIndex(i),
                                 !.refs = Append(@, get_unchecked_mut(i, n)),
                                 !.yielded = Append(@, e)]]

\* Iter::next on the k-th iterator: `Some(&self.vec[index])` goes through
\* Index::index, bounds test included
Iter_next(k) ==
    /\ pc = "shared"
    /\ k \in 1..Len(iters)
    /\ LET i == iters[k].index IN
       IF i < len
       THEN IF IndexOutOfBounds(data, len, i, N)
            THEN /\ pc' = "unwinding"
                 /\ iters' = <<>>
                 /\ last' = Rec("Iter::next", k, "panic", None, Uninit, <<>>)
            ELSE /\ pc' = pc
                 /\ iters' = Iter_nextIters(iters, k, i, get_unchecked(data, i, N), N)
                 /\ last' = Rec("Iter::next", k, "ok",
                                Some(get_unchecked(data, i, N)), Uninit, <<>>)
       ELSE /\ pc' = pc
            /\ iters' = [iters EXCEPT ![k].done = TRUE]
            /\ last' = Rec("Iter::next", k, "ok", None, Uninit, <<>>)
    /\ UNCHANGED <<N, data, len, cap, index, nextId, drops, taken, shadow, onlyPush>>

\* the k-th Iter goes out of scope; the shared borrow ends with the last one
Iter_end(k) ==
    /\ pc = "shared"
    /\ k \in 1..Len(iters)
    /\ iters' = [j \in 1..(Len(iters) - 1) |-> IF j < k THEN iters[j] ELSE iters[j + 1]]
    /\ pc' = IF Len(iters) = 1 THEN "live" ELSE "shared"
    /\ last' = Rec("Iter::end", k, "ok", None, Uninit, <<>>)
    /\ UNCHANGED <<N, data, len, cap, index, nextId, drops, taken, shadow, onlyPush>>

\* ChunkedVec::iter_mut: the exclusive borrow
iter_mut ==
    /\ pc = "live"
    /\ iters' = <<NewIter>>
    /\ pc' = "exclusive"
    /\ last' = Rec("iter_mut", 1, "ok", None, Uninit, <<>>)
    /\ UNCHANGED <<N, data, len, cap, index, nextId, drops, taken, shadow, onlyPush>>

\* IterMut::next: the reference is made from the raw pointer
\* get_unchecked_mut(index) returns
IterMut_next ==
    /\ pc = "exclusive"
    /\ LET i == iters[1].index
           loc == get_unchecked_mut(i, N)
       IN  IF i < len
           THEN /\ iters' = [iters EXCEPT ![1] =
                               [@ EXCEPT !.index = i + 1,
                                         !.refs = Append(@, loc),
                                         !.yielded = Append(@, data[loc[1] + 1][loc[2] + 1])]]
                /\ last' = Rec("IterMut::next", i, "ok",
                               Some(data[loc[1] + 1][loc[2] + 1]), Uninit, <<>>)
           ELSE /\ iters' = [iters EXCEPT ![1].done = TRUE]
                /\ last' = Rec("IterMut::next", i, "ok", None, Uninit, <<>>)
    /\ UNCHANGED <<N, data, len, cap, pc, index, nextId, drops, taken, shadow, onlyPush>>

\* the slot a returned reference points at, after `*reference = value`
IterMut_writeData(d, loc, value) == [d EXCEPT ![loc[1] + 1][loc[2] + 1] = value]

\* the caller assigns through the j-th reference IterMut::next returned: the
\* value the reference points at is destructed and the new one moved in
IterMut_write(j) ==
    /\ pc = "exclusive"
    /\ j \in 1..Len(iters[1].refs)
    /\ nextId <= MaxIds
    /\ nextId' = nextId + 1
    /\ LET value == Fresh(nextId)
           loc == iters[1].refs[j]
           old == data[loc[1] + 1][loc[2] + 1]
       IN  /\ data' = IterMut_writeData(data, loc, value)
           /\ drops' = Append(drops, old.id)
           /\ shadow' = [k \in 1..Len(shadow) |->
                            IF get_unchecked_mut(k - 1, N) = loc THEN value ELSE shadow[k]]
           /\ last' = Rec("IterMut::write", j - 1, "ok", Some(old), value, <<old.id>>)
    /\ onlyPush' = FALSE
    /\ UNCHANGED <<N, len, cap, pc, index, taken, iters>>

\* the IterMut and the references it returned go out of scope
IterMut_end ==
    /\ pc = "exclusive"
    /\ iters' = <<>>
    /\ pc' = "live"
    /\ last' = Rec("IterMut::end", 1, "ok", None, Uninit, <<>>)
    /\ UNCHANGED <<N, data, len, cap, index, nextId, drops, taken, shadow, onlyPush>>

NextIter ==
    \/ Push
    \/ \E i \in 0..MaxLen : Remove(i)
    \/ iter
    \/ \E k \in 1..MaxIters : Iter_next(k)
    \/ \E k \in 1..MaxIters : Iter_end(k)
    \/ iter_mut
    \/ IterMut_next
    \/ \E j \in 1..(MaxLen + 1) : IterMut_write(j)
    \/ IterMut_end
    \/ Dispose

\* the iterated container is built from ChunkedVec::new()
InitNew == Init /\ cap = NewCap

SpecIter == InitNew /\ [][NextIter]_vars

\* C15: a read-only iterator returns references to the elements at indices
\* 0, 1, ..., len - 1 in that order, exactly len of them, then None on every
\* later call, and never changes the container.
C15_IterOrder ==
    pc = "shared" =>
        \A k \in 1..Len(iters) :
            LET it == iters[k] IN
            /\ it.index = Len(it.yielded) /\ it.index <= len
            /\ \A j \in 1..Len(it.yielded) :
                  /\ it.refs[j] = <<(j - 1) \div N, (j - 1) % N>>
                  /\ it.yielded[j] = shadow[j]
            /\ it.done => Len(it.yielded) = len
            /\ (last.op = "Iter::next" /\ last.index = k) =>
                  /\ last.outcome = "ok"
                  /\ last.ret = (IF it.done THEN None ELSE Some(shadow[it.index]))
                  /\ data = last.preData /\ len = last.preLen /\ cap = last.preCap

C15_Witness ==
    /\ pc = "shared" /\ Len(iters) = 1 /\ ~onlyPush
    /\ last.op = "Iter::next" /\ last.ret = None /\ last.prePc = "shared"
    /\ iters[1].done /\ Len(iters[1].yielded) = 3 /\ N = 2
    /\ last.preData = data /\ Len(data) = 2

\* C16: the exclusive iterator returns one reference per index, never two to
\* the same slot, then None; a write through the reference for index i
\* changes exactly element i.
C16_IterMutDistinct ==
    pc = "exclusive" =>
        LET it == iters[1] IN
        /\ it.index = Len(it.refs) /\ it.index <= len
        /\ \A j \in 1..Len(it.refs) : it.refs[j] = <<(j - 1) \div N, (j - 1) % N>>
        /\ \A a, b \in 1..Len(it.refs) : a # b => it.refs[a] # it.refs[b]
        /\ it.done => it.index = len
        /\ last.op = "IterMut::next" =>
              last.ret = (IF last.index < len THEN Some(shadow[last.index + 1]) ELSE None)
        /\ last.op = "IterMut::write" =>
              /\ len = last.preLen /\ Len(data) = Len(last.preData)
              /\ View(data, len, N) = [last.pre EXCEPT ![last.index + 1] = last.arg]
              /\ \A c \in 1..Len(data) : \A o \in 1..N :
                    (c - 1) * N + (o - 1) # last.index => data[c][o] = last.preData[c][o]

C16_Witness ==
    /\ pc = "exclusive" /\ last.op = "IterMut::write" /\ last.index = 1
    /\ N = 2 /\ len = 3 /\ Len(iters[1].refs) = 3
    /\ View(data, len, N) # last.pre

\* C17: any number of read-only iterators may be live over the same
\* container, their calls interleaved in any order; each one yields the full
\* sequence on its own, and the container is never modified.
C17_ItersIndependent ==
    pc = "shared" =>
        /\ Len(iters) >= 1
        /\ \A k \in 1..Len(iters) :
              /\ iters[k].yielded = SubSeq(View(iters[k].data0, iters[k].len0, N),
                                           1, Len(iters[k].yielded))
              /\ iters[k].done => iters[k].yielded = View(iters[k].data0, iters[k].len0, N)
              /\ data = iters[k].data0 /\ len = iters[k].len0
        /\ View(data, len, N) = shadow

C17_Witness ==
    /\ pc = "shared" /\ Len(iters) = 2 /\ len = 3 /\ N = 2
    /\ iters[1].index = 1 /\ ~iters[1].done
    /\ iters[2].done /\ Len(iters[2].yielded) = 3
    /\ last.op = "Iter::next" /\ last.index = 1

\* the slot at offset o of chunk c holds a value that has neither been
\* destructed nor moved out to the caller nor moved to a slot of lower index
SlotIndex(c, o) == (c - 1) * N + (o - 1)

Initialized(c, o) ==
    /\ data[c][o].id # 0
    /\ Destructions(data[c][o].id) = 0
    /\ Handovers(data[c][o].id) = 0
    /\ \A c2 \in 1..Len(data) : \A o2 \in 1..N :
          SlotIndex(c2, o2) < SlotIndex(c, o) => data[c2][o2].id # data[c][o].id

\* C18: in every state reached by construction followed by push, resize and
\* remove, for every slot of every existing chunk, the slot with logical
\* index i is initialized if and only if i < len.
C18_InitializedIffBelowLen ==
    (pc \in {"live", "unwinding"} /\ last.op \in {"new", "push", "resize", "remove"}) =>
        \A c \in 1..Len(data) : \A o \in 1..N :
            Initialized(c, o) <=> SlotIndex(c, o) < len

\* C19: in every reachable state, when the chunk index of logical index len
\* is beyond the chunk list, the offset of len within its chunk is 0: the
\* assertion of push never fails after any sequence of constructors, push,
\* resize and remove.
C19_PushAssertHolds ==
    /\ pc \in {"live", "unwinding"} =>
          ((len \div N) >= Len(data) => (len % N) = 0)
    /\ last.op = "push" => last.outcome = "ok"

C19_Witness ==
    /\ last.op = "push" /\ last.outcome = "ok" /\ ~onlyPush
    /\ last.preLen >= 1 /\ (last.preLen \div N) >= Len(last.preData)
    /\ Len(data) = Len(last.preData) + 1 /\ N = 1

\* C20: disposal of a container whose element type needs destruction walks
\* the chunks in order and destructs exactly the slots with logical index
\* below len, each once and in increasing index order, min(remaining, N)
\* slots per chunk from offset 0; it touches no slot with logical index at
\* or above len and no chunk after remaining has reached 0.
C20_DropBelowLen ==
    (last.op = "drop" /\ needs_drop) =>
        /\ Len(last.dropped) = last.preLen
        /\ \A i \in 0..(last.preLen - 1) :
              last.dropped[i + 1] = last.preData[(i \div N) + 1][(i % N) + 1].id
        /\ Len(drops) >= last.preLen
        /\ SubSeq(drops, Len(drops) - last.preLen + 1, Len(drops)) = last.dropped

C20_Witness ==
    /\ last.op = "drop" /\ last.prePc = "live" /\ N = 3
    /\ last.preLen = 1 /\ Len(last.preData) = 1 /\ Len(last.dropped) = 1
    /\ last.preData[1][2].id # 0

\* C21: across every single push, resize or remove step the chunk list
\* changes only at its tail: the list after the step is the list before it
\* with new chunks appended, or a prefix of the list before it; no chunk is
\* moved, merged or replaced in the middle.
C21_ChunksChangeAtTail ==
    last.op \in {"push", "resize", "remove"} =>
        LET before == Len(last.preData)
            after == Len(last.chunks)
        IN  /\ after = Len(data)
            /\ \/ /\ after >= before
                  /\ \A k \in 1..before : last.chunks[k] = k
                  /\ \A k \in (before + 1)..after : last.chunks[k] = 0
               \/ /\ after <= before
                  /\ \A k \in 1..after : last.chunks[k] = k

C21_Witness ==
    /\ last.op = "remove" /\ last.outcome = "ok" /\ N = 2
    /\ Len(last.preData) = 2 /\ last.chunks = <<1>> /\ Len(data) = 1

\* C22: push never destructs anything: it writes the value into the target
\* slot without destructing the slot's prior contents or any stored element;
\* a container built by pushes alone sees no destruction until its disposal,
\* which destructs exactly the stored elements.
C22_PushNoDrop ==
    /\ (last.op = "push" /\ last.outcome = "ok") =>
          /\ last.dropped = <<>>
          /\ \A j \in 1..Len(shadow) : Destructions(shadow[j].id) = 0
          /\ Destructions(Uninit.id) = 0
    /\ (onlyPush /\ pc = "live") => drops = <<>>
    /\ (onlyPush /\ last.op = "drop" /\ last.prePc = "live") =>
          /\ drops = Ids(shadow)
          /\ \A x \in AllIds : Destructions(x) = 1

C22_Witness ==
    /\ onlyPush /\ last.op = "drop" /\ last.prePc = "live" /\ N = 2 /\ Len(shadow) = 3
    /\ Len(last.preData) = 2 /\ Len(drops) = 3

\* the logical indices the location mapping is examined on
Indices == 0..(MaxN + MaxLen)

\* C23: for every chunk size N >= 1 and every logical index i the location
\* mapping gives chunk_index = i / N and offset = i % N, with
\* 0 <= offset < N and chunk_index * N + offset = i; chunk k holds exactly
\* the logical indices k*N .. (k+1)*N - 1, and two distinct indices never
\* map to the same slot.
C23_LocateBijective ==
    /\ N >= 1
    /\ \A i \in Indices :
          LET loc == get_unchecked_mut(i, N) IN
          /\ loc[1] >= 0 /\ loc[2] >= 0 /\ loc[2] < N
          /\ loc[1] * N + loc[2] = i
          /\ \A k \in Indices : loc[1] = k <=> (k * N <= i /\ i < (k + 1) * N)
          /\ \A j \in Indices : get_unchecked_mut(j, N) = loc => j = i
    /\ \A i \in 0..(Len(data) * N - 1) :
          get_unchecked(data, i, N) =
              data[get_unchecked_mut(i, N)[1] + 1][get_unchecked_mut(i, N)[2] + 1]

C23_Witness ==
    /\ pc = "live" /\ N = 2 /\ len = 3 /\ Len(data) = 2
    /\ get_unchecked_mut(1, N) = <<0, 1>> /\ get_unchecked_mut(2, N) = <<1, 0>>
    /\ get_unchecked(data, 1, N) = data[1][2] /\ get_unchecked(data, 2, N) = data[2][1]
    /\ data[1][2].id # data[2][1].id /\ data[2][1].id # 0

\* C24: for every reachable state and every index < len, every chunk index
\* remove reads or writes, the slot it marks uninitialized in its last step
\* included, is below the number of chunks, so remove completes without an
\* out-of-range access for every len, also when len is a multiple of N and
\* when N = 1.
C24_RemoveInRange ==
    /\ (pc = "live" /\ len > 0) =>
          /\ ((len - 1) \div N) < Len(data)
          /\ RemoveLastChunkIdx(len, N) < Len(data)
    /\ (last.op = "remove" /\ last.index < last.preLen) => last.outcome = "ok"

====
